---- MODULE Spec2Model ----
(***************************************************************************)
(* Model of perennial-cli's opam manifest editor (package opam): the       *)
(* Document/Region model (findRegions, Parse, String), the pin-depends     *)
(* store (GetPinDepends, AddPinDepend, GetIndirect, SetIndirect,           *)
(* AddDependency) and the resolver (FetchDependencies,                     *)
(* UpdateIndirectDependencies).                                            *)
(*                                                                         *)
(* Representation.  A line of a manifest is a record.  Lines with a fixed  *)
(* text are literals (k = "lit", s = the text).  A pin-depends entry line  *)
(*   ["<name>"<pad>"<url>#<commit>"]                                       *)
(* is k = "pin" with the fields as they stand on disk; s tells whether the *)
(* spacing is the one PinDepend.String produces ("canon") or another one   *)
(* the regular expression also accepts ("loose").  A depends entry line    *)
(*   "<name>"  is k = "dep".                                               *)
(* A package name is <<base, n>>: the string base followed by n copies of  *)
(* the suffix ".dev".  A commit is <<hash, len>>: the first len characters *)
(* of the 40 character hash; <<"", 0>> is the empty string.                *)
(* Line numbers are 0-based as in the Go code; Lines[i] is LineAt(l, i).   *)
(***************************************************************************)
EXTENDS Integers, Sequences, FiniteSets, TLC

VARIABLES
    text,   \* the manifest text handed to Parse: a sequence of segments
    pc,     \* "text" (not parsed yet), "parsed", "error", "panic"
    f,      \* the OpamFile: Lines, depends, pinDepends, indirectPinDepends
    err,    \* the error Parse returned
    last,   \* history: the last Store operation, its arguments, f before it
    nops,   \* number of Store operations applied so far
    env,    \* the remote world the resolver talks to
    run,    \* history: outcome of the calls of UpdateIndirectDependencies
    rules,  \* the dependency-rule text handed to depgraph.Parse
    gpc,    \* "rules" (not parsed yet), "parsed", "walk", "done"
    graph,  \* the dependency graph
    filt,   \* history: the graph before the last FilterNodes and its predicate
    walk,   \* the traversal of Graph.Deps or Graph.Targets in progress
    result  \* what RocqDeps or RocqTargets returned

opamVars == <<text, pc, f, err, last, nops, env, run>>

graphVars == <<rules, gpc, graph, filt, walk, result>>

vars == <<text, pc, f, err, last, nops, env, run, rules, gpc, graph, filt, walk, result>>

----------------------------------------------------------------------------
(* Bounds of the model.                                                    *)

MaxTextLines == 5

MaxOps == 2

MaxRuns == 2

\* Lines of a dependency-rule text.
MaxRuleLines == 4

\* Nodes on the stack of a traversal.
MaxDepth == 12

----------------------------------------------------------------------------
(* Basic values.                                                           *)

HASH_ABBREV_LENGTH == 10

FullHashLength == 40

NoName == <<"", 0>>

NoCommit == <<"", 0>>

\* The commit as it is, whatever its length.
KeepHash(commit) == commit

AbbreviateHash(commit) ==
    IF commit[2] > HASH_ABBREV_LENGTH
    THEN <<commit[1], HASH_ABBREV_LENGTH>>
    ELSE commit

\* strings.TrimSuffix(name, ".dev")
TrimSuffixDev(name) == IF name[2] > 0 THEN <<name[1], name[2] - 1>> ELSE name

\* name + ".dev"
AddSuffixDev(name) == <<name[1], name[2] + 1>>

\* The URLs u for which strings.HasPrefix("https://", u) holds, among the
\* URLs of the model: the empty string and "https://" itself.
HttpsPrefixes == {"", "https://"}

PinDep(p, u, c) == [Package |-> p, URL |-> u, Commit |-> c]

\* The nil *PinDepend.
NilDep == [Package |-> NoName, URL |-> "<nil>", Commit |-> NoCommit]

\* PinDepend.Normalize
Normalize(dep) ==
    [Package |-> TrimSuffixDev(dep.Package),
     URL     |-> IF dep.URL \in HttpsPrefixes THEN "git+" \o dep.URL ELSE dep.URL,
     Commit  |-> AbbreviateHash(dep.Commit)]

----------------------------------------------------------------------------
(* Lines and the regular expressions that classify them.                   *)

Lit(s) == [k |-> "lit", s |-> s, name |-> NoName, url |-> "", commit |-> NoCommit]

PinLine(fmt, name, url, commit) ==
    [k |-> "pin", s |-> fmt, name |-> name, url |-> url, commit |-> commit]

DepLine(name) ==
    [k |-> "dep", s |-> "", name |-> name, url |-> "", commit |-> NoCommit]

DependsOpen == Lit("depends: [")
PinDependsOpen == Lit("pin-depends: [")
CloseBracket == Lit("]")
BeginIndirect == Lit("  ## begin indirect")
EndIndirect == Lit("  ## end")
Blank == Lit("")

\* ^\s*depends:\s*\[
dependsRe(line) == line.k = "lit" /\ line.s \in {"depends: [", "depends: []"}

\* ^\s*pin-depends:\s*\[
pinDependsRe(line) ==
    line.k = "lit" /\ line.s \in {"pin-depends: [", "pin-depends: []"}

\* ^\s*\]
closeBracketRe(line) == line.k = "lit" /\ line.s \in {"]"}

\* ^\s*##\s*begin indirect\b.*$
beginIndirectRe(line) == line.k = "lit" /\ line.s \in {"  ## begin indirect"}

\* ^\s*##\s*end\b.*$
endIndirectRe(line) == line.k = "lit" /\ line.s \in {"  ## end", "## end indirect"}

\* ^\s*\[\s*"([^"]+)"\s+"([^"]+)"\s*\] : both quoted fields are non-empty.
pinDependLineRe(line) ==
    /\ line.k = "pin"
    /\ line.name # NoName
    /\ (line.url # "" \/ line.commit[2] > 0)

\* ^\s*"([^"]+)"
dependLineRe(line) == line.k = "dep" /\ line.name # NoName

----------------------------------------------------------------------------
(* Go slices.                                                              *)

LineAt(lines, i) == lines[i + 1]

\* slices.Insert(s, i, v...)
Insert(s, i, v) == SubSeq(s, 1, i) \o v \o SubSeq(s, i + 1, Len(s))

\* slices.Delete(s, i, j)
Delete(s, i, j) == SubSeq(s, 1, i) \o SubSeq(s, j + 1, Len(s))

\* slices.Replace(s, i, j, v...)
Replace(s, i, j, v) == SubSeq(s, 1, i) \o v \o SubSeq(s, j + 1, Len(s))

\* s[i] = v
SetAt(s, i, v) == [s EXCEPT ![i + 1] = v]

----------------------------------------------------------------------------
(* Regions.                                                                *)

Region(s, e) == [startLine |-> s, endLine |-> e]

NoRegion == Region(0, 0)

Contains(r, line) == r.startLine <= line /\ line < r.endLine

empty(r) == r.endLine <= r.startLine

\* innerLineNums: rangeIter(startLine+1, endLine-1), as a sequence.
rangeIter(start, end) ==
    IF end <= start THEN <<>> ELSE [j \in 1..(end - start) |-> start + j - 1]

innerLineNums(r) == rangeIter(r.startLine + 1, r.endLine - 1)

NoErr == [kind |-> "", line |-> -1, line2 |-> -1]

Err(kind, l1, l2) == [kind |-> kind, line |-> l1, line2 |-> l2]

\* The scan state of findRegions before the first line.
ScanInit ==
    [depends |-> NoRegion, pinDepends |-> NoRegion,
     indirectPinDepends |-> NoRegion,
     inDepends |-> FALSE, inPinDepends |-> FALSE, indirectStart |-> -1,
     err |-> NoErr]

\* The check made when the pin-depends block closes: is an indirect region
\* left open?
UnclosedIndirect(st) ==
    st.indirectStart >= 0 /\ empty(st.indirectPinDepends)

\* One iteration of the loop of findRegions, on line number i; unclosed is
\* the outcome of the check for an indirect region left open.
ScanStep(st, i, line, unclosed) ==
    IF ~st.inDepends /\ dependsRe(line)
    THEN [st EXCEPT !.depends.startLine = i, !.inDepends = TRUE]
    ELSE IF ~st.inPinDepends /\ pinDependsRe(line)
    THEN [st EXCEPT !.pinDepends.startLine = i, !.inPinDepends = TRUE]
    ELSE IF st.inDepends /\ closeBracketRe(line)
    THEN [st EXCEPT !.depends.endLine = i + 1, !.inDepends = FALSE]
    ELSE IF st.inPinDepends /\ closeBracketRe(line)
    THEN IF unclosed
         THEN [st EXCEPT !.pinDepends.endLine = i + 1, !.inPinDepends = FALSE,
                         !.err = Err("unclosed indirect region", st.indirectStart, -1)]
         ELSE [st EXCEPT !.pinDepends.endLine = i + 1, !.inPinDepends = FALSE]
    ELSE IF st.inPinDepends
    THEN IF beginIndirectRe(line)
         THEN IF st.indirectStart >= 0
              THEN [st EXCEPT !.err =
                       Err("nested begin indirect", st.indirectStart, i)]
              ELSE [st EXCEPT !.indirectStart = i]
         ELSE IF endIndirectRe(line)
         THEN IF st.indirectStart < 0
              THEN [st EXCEPT !.err = Err("end without begin", i, -1)]
              ELSE [st EXCEPT !.indirectPinDepends =
                                   Region(st.indirectStart, i + 1),
                              !.indirectStart = -1]
         ELSE st
    ELSE st

ScanLine(st, i, line) == ScanStep(st, i, line, UnclosedIndirect(st))

RECURSIVE ScanFrom(_, _, _)
ScanFrom(st, lines, i) ==
    IF i >= Len(lines) \/ st.err # NoErr
    THEN st
    ELSE ScanFrom(ScanLine(st, i, LineAt(lines, i)), lines, i + 1)

\* The checks of findRegions after the loop.
ScanEnd(st) ==
    LET e == IF st.err # NoErr THEN st.err
             ELSE IF st.inDepends
             THEN Err("unclosed depends block", st.depends.startLine, -1)
             ELSE IF st.inPinDepends
             THEN Err("unclosed pin-depends block", st.pinDepends.startLine, -1)
             ELSE NoErr
    IN  [depends |-> st.depends, pinDepends |-> st.pinDepends,
         indirectPinDepends |-> st.indirectPinDepends, err |-> e]

\* findRegions: the regions of lines and the error, if any.
findRegions(lines) == ScanEnd(ScanFrom(ScanInit, lines, 0))

\* An OpamFile.  panicked records that update() has panicked.
File(lines, d, p, ind) ==
    [Lines |-> lines, depends |-> d, pinDepends |-> p,
     indirectPinDepends |-> ind, panicked |-> FALSE]

NoFile == File(<<>>, NoRegion, NoRegion, NoRegion)

\* update: recompute the regions after a change of Lines; panic on error.
update(g) ==
    LET Rescanned(r) ==
            [Lines |-> g.Lines, depends |-> r.depends, pinDepends |-> r.pinDepends,
             indirectPinDepends |-> r.indirectPinDepends,
             panicked |-> g.panicked \/ r.err # NoErr]
    IN  Rescanned(findRegions(g.Lines))

----------------------------------------------------------------------------
(* Text, Parse and String.                                                 *)

\* A text is a sequence of segments: the content of a line and the line
\* terminator that follows it ("\n", "\r\n", or "" at the end of input).
Seg(line, eol) == [line |-> line, eol |-> eol]

\* bufio.ScanLines: the contents, terminator and one trailing \r dropped.
ScanLines(t) == [i \in 1..Len(t) |-> t[i].line]

DependsInsertPos(lines, fr) == fr.depends.endLine

\* Parse, after the scanner: [err, f].
ParseLines(lines) ==
    LET WithDepends(f0, l1) ==
            [f0 EXCEPT !.Lines = l1, !.depends = Region(Len(l1) - 2, Len(l1))]
        AddDepends(f0, fr) ==
            IF empty(f0.depends)
            THEN WithDepends(f0, Insert(f0.Lines, DependsInsertPos(f0.Lines, fr),
                                        <<DependsOpen, CloseBracket>>))
            ELSE f0
        AddPinDepends(f1) ==
            IF empty(f1.pinDepends)
            THEN update([f1 EXCEPT !.Lines =
                            Insert(f1.Lines, f1.depends.endLine,
                                   <<PinDependsOpen, CloseBracket>>)])
            ELSE f1
        Scanned(fr) ==
            IF fr.err # NoErr
            THEN [err |-> fr.err, f |-> NoFile]
            ELSE [err |-> NoErr,
                  f |-> AddPinDepends(AddDepends(
                            File(lines, fr.depends, fr.pinDepends, fr.indirectPinDepends),
                            fr))]
    IN  Scanned(findRegions(lines))

Parse(t) == ParseLines(ScanLines(t))

\* A serialisation that joins the lines and ends without a terminator.
StringNoFinalEol(g) ==
    [i \in 1..Len(g.Lines) |->
        Seg(g.Lines[i], IF i < Len(g.Lines) THEN "\n" ELSE "")]

\* String: strings.Join(Lines, "\n") + "\n"
String(g) ==
    IF g.Lines = <<>>
    THEN <<Seg(Blank, "\n")>>
    ELSE [i \in 1..Len(g.Lines) |-> Seg(g.Lines[i], "\n")]

----------------------------------------------------------------------------
(* The pin-depends store.                                                  *)

\* parsePinDependLine: NilDep when the line is no entry.
parsePinDependLine(line) ==
    IF ~pinDependLineRe(line)
    THEN NilDep
    ELSE Normalize(PinDep(line.name, line.url, line.commit))

\* PinDepend.String: the rendered entry line.
DepString(dep) ==
    PinLine("canon", AddSuffixDev(dep.Package), dep.URL,
            IF dep.Commit # NoCommit THEN AbbreviateHash(dep.Commit) ELSE NoCommit)

\* The entries parsed from the lines numbered nums, in that order.
EntriesAt(g, nums) ==
    LET hit == SelectSeq(nums, LAMBDA i : parsePinDependLine(LineAt(g.Lines, i)) # NilDep)
    IN  [j \in 1..Len(hit) |-> parsePinDependLine(LineAt(g.Lines, hit[j]))]

GetPinDepends(g) ==
    EntriesAt(g, SelectSeq(innerLineNums(g.pinDepends),
                           LAMBDA i : ~Contains(g.indirectPinDepends, i)))

\* GetIndirect: the entries between the indirect markers.
GetIndirect(g) ==
    IF empty(g.indirectPinDepends)
    THEN <<>>
    ELSE EntriesAt(g, rangeIter(g.indirectPinDepends.startLine + 1,
                                g.indirectPinDepends.endLine - 1))

\* The first line number of nums holding an entry for package p, or -1.
FirstEntryFor(g, nums, p) ==
    LET hit == SelectSeq(nums,
                   LAMBDA i : LET d == parsePinDependLine(LineAt(g.Lines, i))
                              IN  d # NilDep /\ d.Package = p)
    IN  IF hit = <<>> THEN -1 ELSE hit[1]

\* AddPinDepend when the entry found lies in the indirect section.
AddPinDependFromIndirect(g, dep, foundIndex) ==
    LET Reinsert(g1) ==
            IF g1.panicked
            THEN g1
            ELSE update([g1 EXCEPT !.Lines =
                            Insert(g1.Lines, g1.pinDepends.startLine + 1,
                                   <<DepString(dep)>>)])
    IN  Reinsert(update([g EXCEPT !.Lines = Delete(g.Lines, foundIndex, foundIndex + 1)]))

AddPinDepend(g, dep) ==
    LET Lines1(foundIndex) ==
            IF foundIndex >= 0
            THEN SetAt(g.Lines, foundIndex, DepString(dep))
            ELSE Insert(g.Lines, g.pinDepends.startLine + 1, <<DepString(dep)>>)
        Found(foundIndex) ==
            IF Contains(g.indirectPinDepends, foundIndex)
            THEN AddPinDependFromIndirect(g, dep, foundIndex)
            ELSE update([g EXCEPT !.Lines = Lines1(foundIndex)])
    IN  IF empty(g.pinDepends)
        THEN g
        ELSE Found(FirstEntryFor(g, innerLineNums(g.pinDepends), dep.Package))

\* The first loop of SetIndirect, from the k-th element of indirects on:
\* [Lines, filtered].  The regions of g are those before the call.
RECURSIVE SetIndirectLoop(_, _, _, _, _)
SetIndirectLoop(g, lines, indirects, k, filtered) ==
    IF k > Len(indirects)
    THEN [Lines |-> lines, filtered |-> filtered]
    ELSE LET indirect == indirects[k]
             Next1(at) ==
                 IF at >= 0
                 THEN [Lines |-> SetAt(lines, at, DepString(indirect)),
                       filtered |-> filtered]
                 ELSE [Lines |-> lines, filtered |-> Append(filtered, indirect)]
             Rest(r) == SetIndirectLoop(g, r.Lines, indirects, k + 1, r.filtered)
         IN  Rest(Next1(FirstEntryFor([g EXCEPT !.Lines = lines],
                      SelectSeq(rangeIter(g.pinDepends.startLine + 1,
                                          g.pinDepends.endLine - 1),
                                LAMBDA i : ~Contains(g.indirectPinDepends, i)),
                      indirect.Package)))

RenderAll(deps) == [j \in 1..Len(deps) |-> DepString(deps[j])]

\* SetIndirect
SetIndirect(g, indirects) ==
    IF empty(g.pinDepends)
    THEN g
    ELSE LET Block(body) == <<BeginIndirect>> \o body \o <<EndIndirect>>
             Lines1(r) ==
                 IF ~empty(g.indirectPinDepends)
                 THEN Replace(r.Lines, g.indirectPinDepends.startLine,
                              g.indirectPinDepends.endLine, Block(RenderAll(r.filtered)))
                 ELSE Insert(r.Lines, g.pinDepends.endLine - 1,
                             <<Blank>> \o Block(RenderAll(r.filtered)))
         IN  update([g EXCEPT !.Lines =
                        Lines1(SetIndirectLoop(g, g.Lines, indirects, 1, <<>>))])

\* GetDependencies: the names listed in the depends block.
GetDependencies(g) ==
    IF empty(g.depends)
    THEN <<>>
    ELSE LET hit == SelectSeq(innerLineNums(g.depends),
                              LAMBDA i : dependLineRe(LineAt(g.Lines, i)))
         IN  [j \in 1..Len(hit) |-> LineAt(g.Lines, hit[j]).name]

\* AddDependency
AddDependency(g, packageName) ==
    IF empty(g.depends)
    THEN g
    ELSE IF \E j \in 1..Len(GetDependencies(g)) : GetDependencies(g)[j] = packageName
    THEN g
    ELSE update([g EXCEPT !.Lines =
                    Insert(g.Lines, g.depends.startLine + 1, <<DepLine(packageName)>>)])

----------------------------------------------------------------------------
(* The resolver.                                                           *)

\* packagesWithoutPinDepends: the leaf table.
packagesWithoutPinDepends ==
    {<<"coq-record-update", 0>>, <<"rocq-stdpp", 0>>, <<"rocq-iris", 0>>,
     <<"iris-named-props", 0>>}

\* The place of a base name in the byte order of strings, for the names of
\* the model (none is a prefix of another).
BaseRank(b) ==
    CASE b = "" -> 0
      [] b = "a" -> 1
      [] b = "b" -> 2
      [] b = "c" -> 3
      [] b = "coq-record-update" -> 4
      [] b = "iris-named-props" -> 5
      [] b = "rocq-iris" -> 6
      [] b = "rocq-stdpp" -> 7

\* a.Package < b.Package on strings.
PackageLess(p, q) ==
    \/ BaseRank(p[1]) < BaseRank(q[1])
    \/ p[1] = q[1] /\ p[2] < q[2]

\* git.ResolveCommit: the full hash with the given prefix, when the remote
\* lists one.  env.resolve is the set of the hashes the remote lists.
ResolveCommit(e, commit) ==
    IF commit[2] = FullHashLength
    THEN [ok |-> TRUE, hash |-> commit]
    ELSE IF commit[1] \in e.resolve
    THEN [ok |-> TRUE, hash |-> <<commit[1], FullHashLength>>]
    ELSE [ok |-> FALSE, hash |-> NoCommit]

\* PinDepend.ExtendCommitHash: [dep, extended, ok].
ExtendCommitHash(e, dep) ==
    IF dep.Commit = NoCommit \/ dep.Commit[2] = FullHashLength
    THEN [dep |-> dep, extended |-> FALSE, ok |-> TRUE]
    ELSE LET Resolved(r) ==
                 IF ~r.ok
                 THEN [dep |-> dep, extended |-> FALSE, ok |-> FALSE]
                 ELSE IF r.hash # dep.Commit
                 THEN [dep |-> [dep EXCEPT !.Commit = r.hash], extended |-> TRUE,
                       ok |-> TRUE]
                 ELSE [dep |-> dep, extended |-> FALSE, ok |-> TRUE]
         IN  Resolved(ResolveCommit(e, dep.Commit))

\* git.GetFile by way of fetchOpamFile: the manifest <package>.opam of the
\* repository at the commit of dep (e.newer holds the manifests that differ
\* at a given commit, e.remote those of the other commits), or a failure.
NoFetch == [ok |-> FALSE, text |-> <<>>]

fetchOpamFile(e, dep) ==
    IF dep.Package \notin DOMAIN e.remote
    THEN NoFetch
    ELSE IF <<dep.Package, dep.Commit[1]>> \in DOMAIN e.newer
    THEN e.newer[<<dep.Package, dep.Commit[1]>>]
    ELSE e.remote[dep.Package]

\* The candidates a parsed manifest contributes.
Candidates(g) == GetPinDepends(g) \o GetIndirect(g)

\* PinDepend.FetchDependencies: [deps, err, fetched], fetched telling
\* whether the fetch collaborator was called.
FetchDependencies(e, dep) ==
    LET Parsed(r) ==
            IF r.err # NoErr
            THEN [deps |-> <<>>, err |-> "parse", fetched |-> TRUE]
            ELSE [deps |-> Candidates(r.f), err |-> "", fetched |-> TRUE]
        Got(data) ==
            IF ~data.ok
            THEN [deps |-> <<>>, err |-> "fetch", fetched |-> TRUE]
            ELSE Parsed(Parse(data.text))
    IN  IF dep.Package \in packagesWithoutPinDepends
        THEN [deps |-> <<>>, err |-> "", fetched |-> FALSE]
        ELSE Got(fetchOpamFile(e, dep))

\* The first loop of UpdateIndirectDependencies, from directDeps[i] on:
\* [f, changed, err].
RECURSIVE ExtendLoop(_, _, _, _, _)
ExtendLoop(e, g, directDeps, i, changed) ==
    IF i > Len(directDeps) \/ g.panicked
    THEN [f |-> g, changed |-> changed, err |-> ""]
    ELSE LET Extended(x) ==
                 IF ~x.ok
                 THEN [f |-> g, changed |-> changed, err |-> "resolve"]
                 ELSE IF x.extended
                 THEN ExtendLoop(e, AddPinDepend(g, x.dep), directDeps, i + 1, TRUE)
                 ELSE ExtendLoop(e, g, directDeps, i + 1, changed)
         IN  Extended(ExtendCommitHash(e, directDeps[i]))

\* A merge that keeps every candidate, seen or not.
AddUnseenNoDedup(indirects, new, j) == indirects \o new

\* indirects with the candidates new added: those whose package was not
\* seen, in order.
RECURSIVE AddUnseen(_, _, _)
AddUnseen(indirects, new, j) ==
    IF j > Len(new)
    THEN indirects
    ELSE IF \E m \in 1..Len(indirects) : indirects[m].Package = new[j].Package
    THEN AddUnseen(indirects, new, j + 1)
    ELSE AddUnseen(Append(indirects, new[j]), new, j + 1)

\* The second loop of UpdateIndirectDependencies, from deps[k] on:
\* [indirects, err, fetched], fetched listing the dependencies fetched.
RECURSIVE FetchLoop(_, _, _, _, _)
FetchLoop(e, deps, k, indirects, fetched) ==
    IF k > Len(deps)
    THEN [indirects |-> indirects, err |-> "", fetched |-> fetched]
    ELSE LET Got(r, fetched1) ==
                 IF r.err # ""
                 THEN [indirects |-> indirects, err |-> r.err, fetched |-> fetched1]
                 ELSE FetchLoop(e, deps, k + 1, AddUnseen(indirects, r.deps, 1), fetched1)
             Fetch(r) ==
                 Got(r, IF r.fetched THEN Append(fetched, deps[k]) ELSE fetched)
         IN  Fetch(FetchDependencies(e, deps[k]))

\* The orders in which s comes out of a sort by package name that need not
\* be stable: slices.SortFunc.
IsSortedByPackage(s) ==
    \A i \in 1..Len(s) : \A j \in (i + 1)..Len(s) :
        ~PackageLess(s[j].Package, s[i].Package)

PermutationsOf(s) ==
    {[i \in 1..Len(s) |-> s[p[i]]] :
        p \in {q \in [1..Len(s) -> 1..Len(s)] :
                  \A i, j \in 1..Len(s) : q[i] = q[j] => i = j}}

\* A sort that leaves the list as it is.
SortFuncUnsorted(s) == {s}

SortFunc(s) == {t \in PermutationsOf(s) : IsSortedByPackage(t)}

\* A returned call of UpdateIndirectDependencies.
RunRecord(before, after, changed, e, directs, fetched, handed) ==
    [before |-> before, after |-> after, changed |-> changed, err |-> e,
     directs |-> directs, fetched |-> fetched, handed |-> handed]

\* UpdateIndirectDependencies: the set of its outcomes on g.
UpdateIndirectDependencies(e, g) ==
    LET Written(after, changed, directs, fetched, sorted) ==
            RunRecord(g, after, changed, IF after.panicked THEN "panic" ELSE "",
                      directs, fetched, sorted)
        Collected(p1, oldIndirects, directs, p2) ==
            IF p2.err # ""
            THEN {RunRecord(g, p1.f, FALSE, p2.err, directs, p2.fetched, <<>>)}
            ELSE {Written(SetIndirect(p1.f, sorted),
                          p1.changed \/ oldIndirects # sorted,
                          directs, p2.fetched, sorted) :
                     sorted \in SortFunc(p2.indirects)}
        Listed(p1, directs) ==
            Collected(p1, GetIndirect(p1.f), directs, FetchLoop(e, directs, 1, <<>>, <<>>))
        Extended(p1) ==
            IF p1.f.panicked
            THEN {RunRecord(g, p1.f, FALSE, "panic", <<>>, <<>>, <<>>)}
            ELSE IF p1.err # ""
            THEN {RunRecord(g, p1.f, FALSE, p1.err, <<>>, <<>>, <<>>)}
            ELSE Listed(p1, GetPinDepends(p1.f))
    IN  Extended(ExtendLoop(e, g, GetPinDepends(g), 1, FALSE))

----------------------------------------------------------------------------
(* Inputs.                                                                 *)

\* All sequences over S of length at most n.
SeqsUpTo(S, n) == UNION {[1..m -> S] : m \in 0..n}

\* A text whose lines are all terminated by eol, but for the last, by lastEol.
TextOf(lines, eol, lastEol) ==
    [i \in 1..Len(lines) |-> Seg(lines[i], IF i < Len(lines) THEN eol ELSE lastEol)]

LF(lines) == TextOf(lines, "\n", "\n")

\* The texts of the parser's specification: every arrangement of block and
\* marker lines, with \n or \r\n terminators, the last line terminated or not.
MarkerLines ==
    {DependsOpen, PinDependsOpen, CloseBracket, BeginIndirect, EndIndirect, Blank}

\* The terminators of a text: \n throughout, \r\n throughout, or \n with
\* the last line unterminated (which is a line only when it is not empty).
EolStyles == {"lf", "crlf", "nofinal"}

Styled(lines, style) ==
    IF style = "lf" THEN LF(lines)
    ELSE IF style = "crlf" THEN TextOf(lines, "\r\n", "\r\n")
    ELSE TextOf(lines, "\n", "")

StyleAllowed(lines, style) ==
    \/ style = "lf"
    \/ style = "crlf" /\ lines # <<>>
    \/ style = "nofinal" /\ lines # <<>> /\ lines[Len(lines)] # Blank

URLx == "git+https://x"

PkgA == <<"a", 0>>
PkgB == <<"b", 0>>
PkgC == <<"c", 0>>

\* Entry lines as found in manifests: rendered by this tool, or written by
\* hand with a full hash and another spacing.
LineA == PinLine("canon", <<"a", 1>>, URLx, <<"ha", 10>>)
LineAfull == PinLine("loose", <<"a", 1>>, URLx, <<"ha", 40>>)
LineB == PinLine("canon", <<"b", 1>>, URLx, <<"hb", 10>>)
LineBold == PinLine("canon", <<"b", 1>>, URLx, <<"hb0", 10>>)

Header == Lit("opam-version: \"2.0\"")

DependsBlocks ==
    {<<>>, <<DependsOpen, CloseBracket>>, <<DependsOpen, DepLine(PkgA), CloseBracket>>}

DirectParts == {<<>>, <<LineA>>, <<LineAfull, LineB>>}

IndirectParts ==
    {<<>>, <<BeginIndirect, EndIndirect>>, <<Blank, BeginIndirect, LineBold, EndIndirect>>,
     <<BeginIndirect, LineA, LineBold, EndIndirect>>}

PinDependsBlocks ==
    {<<>>}
    \cup {<<PinDependsOpen>> \o d \o i \o <<CloseBracket>> :
             d \in DirectParts, i \in IndirectParts}
    \cup {<<PinDependsOpen>> \o i \o d \o <<CloseBracket>> :
             d \in DirectParts \ {<<>>}, i \in IndirectParts \ {<<>>}}

\* The manifests of the store's specification.
StoreTexts ==
    {LF(<<Header>> \o d \o p) : d \in DependsBlocks, p \in PinDependsBlocks}

\* Arguments of AddPinDepend.
AddDeps ==
    {PinDep(PkgA, URLx, <<"ha2", 40>>), PinDep(PkgB, URLx, <<"hb", 10>>),
     PinDep(PkgC, URLx, NoCommit), PinDep(PkgC, "", NoCommit)}

\* Arguments of SetIndirect.
IndirectLists ==
    {<<>>, <<PinDep(PkgB, URLx, <<"hb", 40>>)>>,
     <<PinDep(PkgA, URLx, <<"ha", 10>>), PinDep(PkgC, URLx, <<"hc", 10>>)>>,
     <<PinDep(PkgC, URLx, <<"hc", 10>>), PinDep(PkgC, URLx, <<"hc2", 10>>)>>}

\* Arguments of AddDependency.
DependencyNames == {PkgA, PkgB}

\* The root manifests of the resolver's specification.
PkgLeaf == <<"rocq-iris", 0>>

LineLeaf == PinLine("canon", <<"rocq-iris", 1>>, URLx, <<"hl", 10>>)
LineC1 == PinLine("loose", <<"c", 1>>, URLx, <<"hc1", 40>>)
LineC2 == PinLine("canon", <<"c", 1>>, URLx, <<"hc2", 10>>)
LineB2 == PinLine("canon", <<"b", 1>>, URLx, <<"hb2", 10>>)
LineC0 == PinLine("canon", <<"c", 1>>, URLx, NoCommit)

RootDirectParts ==
    {<<>>, <<LineA>>, <<LineLeaf>>, <<LineAfull, LineB>>, <<LineB, LineLeaf, LineA>>}

RootIndirectParts == {<<>>, <<Blank, BeginIndirect, LineBold, EndIndirect>>}

RootTexts ==
    {LF(<<Header, DependsOpen, CloseBracket, PinDependsOpen>> \o d \o i \o <<CloseBracket>>) :
        d \in RootDirectParts, i \in RootIndirectParts}
    \cup {LF(<<PinDependsOpen>> \o d \o <<BeginIndirect, LineC2, EndIndirect, CloseBracket>>) :
             d \in {<<LineA>>, <<LineLeaf>>}}
    \cup {LF(<<PinDependsOpen, LineLeaf, BeginIndirect, LineC0, EndIndirect, Blank,
               CloseBracket>>)}

Fetched(lines) == [ok |-> TRUE, text |-> LF(lines)]

\* What the fetch collaborator may return for a repository: a failure, a
\* manifest that does not parse, and manifests with and without entries.
RemoteFiles ==
    {NoFetch,
     Fetched(<<Header, PinDependsOpen, LineC1>>),
     Fetched(<<Header, DependsOpen, CloseBracket>>),
     Fetched(<<Header, PinDependsOpen, LineC1, CloseBracket>>),
     Fetched(<<DependsOpen, CloseBracket, PinDependsOpen, LineC1, LineLeaf,
               BeginIndirect, LineB2, EndIndirect, CloseBracket>>),
     Fetched(<<DependsOpen, CloseBracket, PinDependsOpen, LineC2, LineB2,
               CloseBracket>>)}

RemotePackages == {PkgA, PkgB, PkgC}

\* The hashes the remote may or may not list; it lists all the others.
HashNames == {"ha", "hb"}

OtherHashNames == {"hl", "hb0", "hb2", "hc1", "hc2"}

\* The commits at which a repository may hold another manifest than at its
\* other commits, and the manifests it may hold there.
NewerCommits == {<<PkgB, "hb2">>}

NewerFiles ==
    {Fetched(<<Header, DependsOpen, CloseBracket>>),
     Fetched(<<DependsOpen, CloseBracket, PinDependsOpen, LineLeaf, CloseBracket>>)}

Envs ==
    {[remote |-> r, newer |-> n, resolve |-> ok \cup OtherHashNames] :
        r \in [RemotePackages -> RemoteFiles], n \in [NewerCommits -> NewerFiles],
        ok \in SUBSET HashNames}

----------------------------------------------------------------------------
(* The dependency graph (package depgraph).  A node name is <<base, ext>>: *)
(* the path base with the extension ext ("vo", "v", "glob", or "" for a    *)
(* name without extension).  A line of dependency-rule text is a record:   *)
(* hash tells whether it starts with '#', colon whether it holds a ':',    *)
(* left and right are the names before and after the first ':'.            *)

Node(base, ext) == <<base, ext>>

Dep(target, source) == [Target |-> target, Source |-> source]

RuleLine(targets, sources) ==
    [hash |-> FALSE, colon |-> TRUE, left |-> targets, right |-> sources]

CommentLine(targets, sources) ==
    [hash |-> TRUE, colon |-> TRUE, left |-> targets, right |-> sources]

BlankLine == [hash |-> FALSE, colon |-> FALSE, left |-> <<>>, right |-> <<>>]

\* A line of words without ':'.
OtherLine(words) == [hash |-> FALSE, colon |-> FALSE, left |-> words, right |-> <<>>]

EmptyGraph == [deps |-> <<>>]

allDeps(gr) == gr.deps

InSeq(x, s) == \E j \in 1..Len(s) : s[j] = x

\* One edge more, whether or not the graph holds it already.
AddDepAgain(deps, d) == Append(deps, d)

\* One edge more; the edges are kept without repetition.
AddDep(deps, d) == IF InSeq(d, deps) THEN deps ELSE Append(deps, d)

\* The pairs of one rule, target by target and source by source, from the
\* k-th pair on.
RECURSIVE AddPairs(_, _, _, _)
AddPairs(deps, targets, sources, k) ==
    IF k >= Len(targets) * Len(sources)
    THEN deps
    ELSE AddPairs(AddDep(deps, Dep(targets[(k \div Len(sources)) + 1],
                                   sources[(k % Len(sources)) + 1])),
                  targets, sources, k + 1)

\* One line of the text: comments, blank lines and lines without ':' are
\* skipped.
ParseLine(deps, line) ==
    IF line.hash \/ ~line.colon
    THEN deps
    ELSE AddPairs(deps, line.left, line.right, 0)

RECURSIVE ParseFrom(_, _, _)
ParseFrom(deps, lines, k) ==
    IF k > Len(lines)
    THEN deps
    ELSE ParseFrom(ParseLine(deps, lines[k]), lines, k + 1)

\* depgraph.Parse: the graph and the error (none is raised).
ParseRules(lines) == [graph |-> [deps |-> ParseFrom(<<>>, lines, 1)], err |-> FALSE]

\* A predicate on names is the set of extensions it accepts.
Satisfies(keep, name) == name[2] \in keep

\* The edges whose target satisfies the predicate.
FilterTargets(gr, keep) ==
    [deps |-> SelectSeq(gr.deps, LAMBDA d : Satisfies(keep, d.Target))]

FilterNodes(gr, keep) ==
    [deps |-> SelectSeq(gr.deps, LAMBDA d : Satisfies(keep, d.Target)
                                            /\ Satisfies(keep, d.Source))]

\* filterRocq: the names ending in ".vo" or ".v".
RocqKinds == {"vo", "v"}

filterRocq(gr) == FilterNodes(gr, RocqKinds)

\* The first edge of a target alone.
FirstSourceOf(gr, n) ==
    LET hit == SelectSeq(gr.deps, LAMBDA d : d.Target = n)
    IN  IF hit = <<>> THEN <<>> ELSE <<hit[1].Source>>

\* The sources a target depends on, and the targets that depend on a
\* source, in the order of the edges.
SourcesOf(gr, n) ==
    LET hit == SelectSeq(gr.deps, LAMBDA d : d.Target = n)
    IN  [j \in 1..Len(hit) |-> hit[j].Source]

\* The edges of a node followed the wrong way round.
SourcesForTargets(gr, n) == SourcesOf(gr, n)

TargetsOf(gr, n) ==
    LET hit == SelectSeq(gr.deps, LAMBDA d : d.Source = n)
    IN  [j \in 1..Len(hit) |-> hit[j].Target]

Neighbours(gr, dir, n) ==
    IF dir = "Deps" THEN SourcesOf(gr, n) ELSE TargetsOf(gr, n)

\* The traversal state: the seeds not yet started, the stack of nodes being
\* expanded with the index of the next edge of each, the nodes expanded so
\* far and the nodes discovered so far in the order of their discovery.
StartWalk(dir, seeds) ==
    [dir |-> dir, seeds |-> seeds, stack |-> <<>>, visited |-> {}, out |-> <<>>,
     done |-> FALSE]

NoWalk == StartWalk("", <<>>)

\* A node expanded whenever it is met.
EnterUnguarded(w, n) ==
    [w EXCEPT !.visited = @ \cup {n},
              !.stack = Append(@, [node |-> n, next |-> 1])]

\* A node is expanded once: the visited guard.
Enter(w, n) ==
    IF n \in w.visited
    THEN w
    ELSE [w EXCEPT !.visited = @ \cup {n},
                   !.stack = Append(@, [node |-> n, next |-> 1])]

\* A node listed at each of its discoveries.
DiscoverAgain(w, n) == [w EXCEPT !.out = Append(@, n)]

\* A node is listed once, at its first discovery.
Discover(w, n) ==
    IF InSeq(n, w.out) THEN w ELSE [w EXCEPT !.out = Append(@, n)]

\* One step of the traversal: the next seed, the next edge of the node on
\* top of the stack, or the end.
WalkStep(gr, w) ==
    LET Edge(top, ns) ==
            IF top.next > Len(ns)
            THEN [w EXCEPT !.stack = SubSeq(@, 1, Len(@) - 1)]
            ELSE Enter(Discover([w EXCEPT !.stack[Len(w.stack)].next = @ + 1],
                                ns[top.next]),
                       ns[top.next])
        Top(top) == Edge(top, Neighbours(gr, w.dir, top.node))
    IN  IF w.stack # <<>>
        THEN Top(w.stack[Len(w.stack)])
        ELSE IF w.seeds # <<>>
        THEN Enter([w EXCEPT !.seeds = Tail(@)], Head(w.seeds))
        ELSE [w EXCEPT !.done = TRUE]

RECURSIVE WalkAll(_, _)
WalkAll(gr, w) == IF w.done THEN w.out ELSE WalkAll(gr, WalkStep(gr, w))

\* Graph.Deps and Graph.Targets.
Deps(gr, targets) == WalkAll(gr, StartWalk("Deps", targets))

Targets(gr, sources) == WalkAll(gr, StartWalk("Targets", sources))

setExtension(path, ext) == Node(path[1], ext)

\* The keys of an ordered map after the elements of s were set in order.
RECURSIVE KeysFromOldest(_, _, _)
KeysFromOldest(seen, s, k) ==
    IF k > Len(s) THEN seen
    ELSE KeysFromOldest(IF InSeq(s[k], seen) THEN seen ELSE Append(seen, s[k]), s, k + 1)

\* RocqDeps: the seeds of the query and the result made of the sources.
RocqDepsSeeds(args) ==
    [j \in 1..Len(args) |-> IF args[j][2] = "v" THEN Node(args[j][1], "vo") ELSE args[j]]

RocqDepsResult(sources) ==
    KeysFromOldest(<<>>, SelectSeq(sources, LAMBDA s : s[2] = "v"), 1)

RocqDeps(gr, args) == RocqDepsResult(Deps(gr, RocqDepsSeeds(args)))

\* RocqTargets: both the .v and the .vo name of each argument are seeds.
RocqTargetsSeeds(args) ==
    [j \in 1..2 * Len(args) |->
        setExtension(args[(j + 1) \div 2], IF j % 2 = 1 THEN "v" ELSE "vo")]

RocqTargetsResult(allTargets) ==
    KeysFromOldest(<<>>, [j \in 1..Len(allTargets) |-> setExtension(allTargets[j], "v")], 1)

RocqTargets(gr, args) == RocqTargetsResult(Targets(gr, RocqTargetsSeeds(args)))

NoFilt == [before |-> EmptyGraph, keep |-> {}, applied |-> FALSE]

NoResult == [op |-> "", args |-> <<>>, value |-> <<>>]

\* No dependency-rule text is at hand.
GraphIdle ==
    /\ rules = <<>>
    /\ gpc = "idle"
    /\ graph = EmptyGraph
    /\ filt = NoFilt
    /\ walk = NoWalk
    /\ result = NoResult

----------------------------------------------------------------------------
(* The state machine.                                                      *)

\* The last call of the store and the Document before it; hist lists the
\* calls so far with their arguments.
NoLast ==
    [op |-> "", dep |-> NilDep, deps |-> <<>>, name |-> NoName, before |-> NoFile,
     hist |-> <<>>]

NoEnv == [remote |-> <<>>, newer |-> <<>>, resolve |-> {}]

NoRun == <<>>

InitRest ==
    /\ pc = "text"
    /\ f = NoFile
    /\ err = NoErr
    /\ last = NoLast
    /\ nops = 0
    /\ env = NoEnv
    /\ run = NoRun
    /\ GraphIdle

\* Parse(r)
DoParse ==
    /\ pc = "text"
    /\ \E r \in {Parse(text)} :
          /\ pc' = IF r.err # NoErr THEN "error"
                   ELSE IF r.f.panicked THEN "panic" ELSE "parsed"
          /\ f' = r.f
          /\ err' = r.err
    /\ UNCHANGED <<text, last, nops, env, run>>
    /\ UNCHANGED graphVars

\* The state after a Store operation that took f to g.
Applied(op, dep, deps, name, g) ==
    /\ pc = "parsed"
    /\ nops < MaxOps
    /\ f' = g
    /\ pc' = IF g.panicked THEN "panic" ELSE "parsed"
    /\ last' = [op |-> op, dep |-> dep, deps |-> deps, name |-> name, before |-> f,
                 hist |-> Append(last.hist, [op |-> op, dep |-> dep, deps |-> deps,
                                             name |-> name])]
    /\ nops' = nops + 1
    /\ UNCHANGED <<text, err, env, run>>
    /\ UNCHANGED graphVars

DoAddPinDepend ==
    \E dep \in AddDeps : Applied("AddPinDepend", dep, <<>>, NoName, AddPinDepend(f, dep))

DoSetIndirect ==
    \E deps \in IndirectLists :
        Applied("SetIndirect", NilDep, deps, NoName, SetIndirect(f, deps))

DoAddDependency ==
    \E name \in DependencyNames :
        Applied("AddDependency", NilDep, <<>>, name, AddDependency(f, name))

\* The parser alone, on every arrangement of block and marker lines, and on
\* the arrangements that hold a block opened and closed on one line.
\* The lines of manifests that open and close a block on one line.
OneLineMarkers ==
    {Lit("depends: []"), Lit("pin-depends: []"), DependsOpen, PinDependsOpen,
     CloseBracket}

OneLineTexts ==
    {lines \in SeqsUpTo(OneLineMarkers, MaxTextLines) :
        \E i \in 1..Len(lines) :
            lines[i] \in {Lit("depends: []"), Lit("pin-depends: []")}}

InitParse ==
    /\ \E lines \in SeqsUpTo(MarkerLines, MaxTextLines) \cup OneLineTexts,
          style \in EolStyles :
          /\ StyleAllowed(lines, style)
          /\ text = Styled(lines, style)
    /\ InitRest

NextParse == DoParse

SpecParse == InitParse /\ [][NextParse]_vars

\* The store: a manifest is parsed and then edited.
Init ==
    /\ text \in StoreTexts
    /\ InitRest

Next == DoParse \/ DoAddPinDepend \/ DoSetIndirect \/ DoAddDependency

Spec == Init /\ [][Next]_vars

\* The resolver: a root manifest is parsed and resolved against a remote
\* world; the same text may be parsed again by another invocation.
InitResolve ==
    /\ text \in RootTexts
    /\ pc = "text"
    /\ f = NoFile
    /\ err = NoErr
    /\ last = NoLast
    /\ nops = 0
    /\ env \in Envs
    /\ run = NoRun
    /\ GraphIdle

DoUpdate ==
    /\ pc = "parsed"
    /\ Len(run) < MaxRuns
    /\ \E r \in UpdateIndirectDependencies(env, f) :
          /\ run' = Append(run, r)
          /\ f' = r.after
          /\ pc' = IF r.after.panicked THEN "panic" ELSE "parsed"
    /\ UNCHANGED <<text, err, last, nops, env>>
    /\ UNCHANGED graphVars

\* Another invocation parses the same manifest text.
DoRestart ==
    /\ pc \in {"parsed", "panic"}
    /\ run # <<>>
    /\ Len(run) < MaxRuns
    /\ pc' = "text"
    /\ f' = NoFile
    /\ UNCHANGED <<text, err, last, nops, env, run>>
    /\ UNCHANGED graphVars

NextResolve == DoParse \/ DoUpdate \/ DoRestart

SpecResolve == InitResolve /\ [][NextResolve]_vars

----------------------------------------------------------------------------
(* Properties of Parse and String (specification SpecParse).               *)

AllTerminatedByLF(t) == \A i \in 1..Len(t) : t[i].eol = "\n"

DeclaresDepends(t) == \E i \in 1..Len(t) : dependsRe(t[i].line)

DeclaresPinDepends(t) == \E i \in 1..Len(t) : pinDependsRe(t[i].line)

\* C1, as stated: for every text Parse accepts, whatever its blocks and
\* whether or not it ends with a line terminator, String() of the freshly
\* parsed file is the text.
C1_RoundTripEveryText == pc = "parsed" => String(f) = text

\* C1, amended: for every text Parse accepts that has a depends block and a
\* pin-depends block and in which every line, the last included, ends with
\* "\n" (not "\r\n"), String() of the freshly parsed file is the text.
C1_RoundTrip ==
    (/\ pc = "parsed"
     /\ DeclaresDepends(text)
     /\ DeclaresPinDepends(text)
     /\ AllTerminatedByLF(text)) => String(f) = text

C1_Witness ==
    /\ pc = "parsed"
    /\ DeclaresDepends(text)
    /\ DeclaresPinDepends(text)
    /\ AllTerminatedByLF(text)
    /\ \E i \in 1..Len(text) : text[i].line = Blank
    /\ String(f) = text

\* The scan the specification describes: as findRegions, but the
\* pin-depends block may not close while a begin marker is open.
RECURSIVE ClaimedScanFrom(_, _, _)
ClaimedScanFrom(st, lines, i) ==
    IF i >= Len(lines) \/ st.err # NoErr
    THEN st
    ELSE ClaimedScanFrom(
             ScanStep(st, i, LineAt(lines, i), st.indirectStart >= 0), lines, i + 1)

ClaimedError(t) == ScanEnd(ClaimedScanFrom(ScanInit, ScanLines(t), 0)).err

\* C10: Parse returns an error, naming the block and the line, whenever a
\* block is open at the end of input, an end marker has no open begin marker,
\* a begin marker occurs while one is open, or the pin-depends block closes
\* while a begin marker is open.
C10_MalformedIsRejected ==
    (pc # "text" /\ ClaimedError(text) # NoErr) =>
        (pc = "error" /\ err = ClaimedError(text) /\ f = NoFile)

----------------------------------------------------------------------------
(* Properties of the store (specification Spec).                           *)

\* The regions a fresh scan of the lines finds.
FreshRegions(lines) == findRegions(lines)

\* The lines outside the depends block and outside the pin-depends block.
OutsideLines(lines) ==
    LET r == FreshRegions(lines)
        nums == SelectSeq(rangeIter(0, Len(lines)),
                          LAMBDA i : ~Contains(r.depends, i) /\ ~Contains(r.pinDepends, i))
    IN  [j \in 1..Len(nums) |-> LineAt(lines, nums[j])]

\* C2: every Store operation leaves the lines outside the depends block and
\* outside the pin-depends block as they were, in the same order.
C2_OutsideLinesKept ==
    (pc = "parsed" /\ last.op # "") =>
        OutsideLines(f.Lines) = OutsideLines(last.before.Lines)

\* C3: AddPinDepend(dep) applied twice gives the lines and regions that
\* applying it once gives.  (Stated for the dependencies that carry a URL;
\* one with neither URL nor commit renders as a line nothing reads back.)
C3_AddPinDependIdempotent ==
    (pc = "parsed" /\ last.op = "AddPinDepend" /\ last.dep.URL # "")
        => AddPinDepend(f, last.dep) = f

----------------------------------------------------------------------------
(* Properties of the resolver (specification SpecResolve).                 *)

Succeeded(r) == r.err = ""

\* The lines of the indirect block, markers included.
IndirectBlock(g) ==
    SubSeq(g.Lines, g.indirectPinDepends.startLine + 1, g.indirectPinDepends.endLine)

\* g with the regions a scan of its lines finds: what the manifest says.
AsWritten(g) == update(g)

\* The direct dependencies the manifest g lists.
DirectOf(g) == GetPinDepends(AsWritten(g))

\* The entry lines of the direct part of the pin-depends block.
DirectLines(g) ==
    LET nums == SelectSeq(innerLineNums(g.pinDepends),
                    LAMBDA i : /\ ~Contains(g.indirectPinDepends, i)
                               /\ pinDependLineRe(LineAt(g.Lines, i)))
    IN  [j \in 1..Len(nums) |-> LineAt(g.Lines, nums[j])]

PackagesOf(deps) == [j \in 1..Len(deps) |-> deps[j].Package]

Range(s) == {s[j] : j \in 1..Len(s)}

\* C4: when a fetch or a parse of a dependency's manifest fails, the call
\* returns that error and the lines of the root are those before the call.
C4_FailureWritesNothing ==
    \A i \in 1..Len(run) :
        run[i].err \in {"fetch", "parse"} => run[i].after.Lines = run[i].before.Lines

\* C5: two calls on the same root document, with the same remote manifests,
\* end alike and, when they succeed, leave the same indirect block.
C5_Deterministic ==
    \A i, j \in 1..Len(run) :
        run[i].before = run[j].before =>
            /\ run[i].err = run[j].err
            /\ Succeeded(run[i]) =>
                   IndirectBlock(run[i].after) = IndirectBlock(run[j].after)

C5_Witness ==
    /\ Len(run) = 2
    /\ run[1].before = run[2].before
    /\ Succeeded(run[1])
    /\ Succeeded(run[2])
    /\ Len(run[1].fetched) = 2
    /\ Len(GetIndirect(run[2].after)) >= 2

StrictlyAscending(names) ==
    \A i \in 1..Len(names) : \A j \in (i + 1)..Len(names) : PackageLess(names[i], names[j])

\* C6: after a successful call the package names of the root's indirect
\* entries, in file order, are strictly ascending.
C6_IndirectSorted ==
    \A i \in 1..Len(run) :
        Succeeded(run[i]) => StrictlyAscending(PackagesOf(GetIndirect(run[i].after)))

C6_Witness ==
    \E i \in 1..Len(run) :
        /\ Succeeded(run[i])
        /\ Len(GetIndirect(run[i].after)) >= 2
        /\ Len(run[i].fetched) = 2

\* C7: FetchDependencies on a dependency of the leaf table gives no
\* candidates and no error and calls no fetch; no call of the resolver
\* fetches for a leaf package, and none fetches at all when every direct
\* dependency is a leaf package.
C7_LeafNotFetched ==
    \A i \in 1..Len(run) :
        /\ \A k \in 1..Len(run[i].directs) :
               run[i].directs[k].Package \in packagesWithoutPinDepends =>
                   FetchDependencies(env, run[i].directs[k]) =
                       [deps |-> <<>>, err |-> "", fetched |-> FALSE]
        /\ \A k \in 1..Len(run[i].fetched) :
               run[i].fetched[k].Package \notin packagesWithoutPinDepends
        /\ Range(PackagesOf(DirectOf(run[i].before))) \subseteq packagesWithoutPinDepends
               => run[i].fetched = <<>>

\* The candidates of a call: what the manifests of the root's direct
\* dependencies list, direct entries then indirect ones, in file order of
\* the direct dependencies, the leaf packages left out.
RECURSIVE CandidatesOf(_, _, _)
CandidatesOf(e, directs, k) ==
    IF k > Len(directs)
    THEN <<>>
    ELSE (IF directs[k].Package \in packagesWithoutPinDepends
          THEN <<>>
          ELSE LET g == AsWritten(Parse(fetchOpamFile(e, directs[k]).text).f)
               IN  GetPinDepends(g) \o GetIndirect(g))
         \o CandidatesOf(e, directs, k + 1)

\* C8: when no candidate package is a direct dependency of the root, the
\* direct entry lines of the root have the same text after a successful
\* call as before it.
C8_DirectBlockKept ==
    \A i \in 1..Len(run) :
        (/\ Succeeded(run[i])
         /\ Range(PackagesOf(CandidatesOf(env, DirectOf(run[i].before), 1)))
                \cap Range(PackagesOf(DirectOf(run[i].before))) = {})
        => DirectLines(run[i].after) = DirectLines(AsWritten(run[i].before))

\* s reduced to the first entry of each package.
FirstOccurrences(s) ==
    LET nums == SelectSeq([j \in 1..Len(s) |-> j],
                          LAMBDA j : \A m \in 1..(j - 1) : s[m].Package # s[j].Package)
    IN  [j \in 1..Len(nums) |-> s[nums[j]]]

NonLeaf(deps) ==
    SelectSeq(deps, LAMBDA d : d.Package \notin packagesWithoutPinDepends)

\* C9: the list handed to SetIndirect is the candidates of the root's direct
\* dependencies (one level), reduced to the first entry of each package and
\* sorted by package; one fetch is made per direct dependency that is no
\* leaf package, and none for a candidate.
C9_OneLevel ==
    \A i \in 1..Len(run) :
        Succeeded(run[i]) =>
            /\ Range(run[i].handed) =
                   Range(FirstOccurrences(CandidatesOf(env, DirectOf(run[i].before), 1)))
            /\ Len(run[i].handed) =
                   Len(FirstOccurrences(CandidatesOf(env, DirectOf(run[i].before), 1)))
            /\ IsSortedByPackage(run[i].handed)
            /\ PackagesOf(run[i].fetched) =
                   PackagesOf(NonLeaf(DirectOf(run[i].before)))

----------------------------------------------------------------------------
(* Further properties of the store (specification Spec).                   *)

\* The numbers of the lines strictly inside the pin-depends block of lines,
\* as a scan of the lines finds it, that hold an entry.
EntryLineNums(lines) ==
    LET r == findRegions(lines)
    IN  SelectSeq(rangeIter(0, Len(lines)),
            LAMBDA i : /\ r.pinDepends.startLine < i
                       /\ i < r.pinDepends.endLine - 1
                       /\ pinDependLineRe(LineAt(lines, i)))

\* Is line i between the indirect markers, or a marker itself?
InIndirectRange(lines, i) ==
    LET r == findRegions(lines)
    IN  r.indirectPinDepends.startLine <= i /\ i < r.indirectPinDepends.endLine

\* The entries the lines numbered nums hold, in that order.
ParsedAt(lines, nums) ==
    [j \in 1..Len(nums) |-> parsePinDependLine(LineAt(lines, nums[j]))]

WrittenDirect(lines) ==
    ParsedAt(lines, SelectSeq(EntryLineNums(lines),
                              LAMBDA i : ~InIndirectRange(lines, i)))

WrittenIndirect(lines) ==
    ParsedAt(lines, SelectSeq(EntryLineNums(lines),
                              LAMBDA i : InIndirectRange(lines, i)))

\* C11: GetPinDepends returns, in file order, the entries of the lines
\* inside the pin-depends block and outside the indirect range, GetIndirect
\* those between the indirect markers; so every entry line of the block is
\* returned by exactly one of the two.
C11_ListingsFollowTheBlocks ==
    pc = "parsed" =>
        /\ GetPinDepends(f) = WrittenDirect(f.Lines)
        /\ GetIndirect(f) = WrittenIndirect(f.Lines)
        /\ Len(GetPinDepends(f)) + Len(GetIndirect(f)) = Len(EntryLineNums(f.Lines))

\* The first of the line numbers nums of lines that holds an entry for
\* package p, or -1.
FirstFor(lines, nums, p) ==
    LET hit == SelectSeq(nums, LAMBDA i : parsePinDependLine(LineAt(lines, i)).Package = p)
    IN  IF hit = <<>> THEN -1 ELSE hit[1]

\* The pin-depends open line of lines, as a scan of the lines finds it.
OpenLine(lines) == findRegions(lines).pinDepends.startLine

\* The lines AddPinDepend(dep) leaves, case by case, on a document whose
\* blocks are where a scan of lines finds them.
UpsertedLines(lines, dep) ==
    LET ind == FirstFor(lines, SelectSeq(EntryLineNums(lines),
                                         LAMBDA i : InIndirectRange(lines, i)),
                        dep.Package)
        dir == FirstFor(lines, SelectSeq(EntryLineNums(lines),
                                         LAMBDA i : ~InIndirectRange(lines, i)),
                        dep.Package)
    IN  IF ind >= 0
        THEN Insert(Delete(lines, ind, ind + 1), OpenLine(lines) + 1, <<DepString(dep)>>)
        ELSE IF dir >= 0
        THEN SetAt(lines, dir, DepString(dep))
        ELSE Insert(lines, OpenLine(lines) + 1, <<DepString(dep)>>)

\* Does the listing deps hold package p with the url and commit of dep (the
\* commit in its abbreviated form)?
Lists(deps, dep) ==
    \E j \in 1..Len(deps) :
        /\ deps[j].Package = TrimSuffixDev(dep.Package)
        /\ deps[j].URL = dep.URL
        /\ deps[j].Commit = AbbreviateHash(dep.Commit)

\* C12: AddPinDepend(dep) moves an indirect entry of dep.Package to the line
\* after the pin-depends open line, else replaces a direct entry in place,
\* else inserts after the open line; every other line is kept in order, and
\* GetPinDepends then lists dep.Package with dep's url and commit.
C12_AddPinDependUpserts ==
    (last.op = "AddPinDepend" /\ ~empty(findRegions(last.before.Lines).pinDepends)) =>
        /\ ~f.panicked
        /\ f.Lines = UpsertedLines(last.before.Lines, last.dep)
        /\ Lists(GetPinDepends(f), last.dep)

\* Does the list deps name no package twice?
NoPackageTwice(deps) ==
    \A j, k \in 1..Len(deps) : deps[j].Package = deps[k].Package => j = k

\* Does the listing deps hold an entry for package p?
HasPackage(deps, p) == \E j \in 1..Len(deps) : deps[j].Package = p

\* The entry of the list deps for package p, as it reads once written.
ValueFor(deps, p) ==
    Normalize(deps[CHOOSE j \in 1..Len(deps) : deps[j].Package = p])

\* The entries of deps that go to the indirect block when direct is the
\* listing of the direct entries, as they read once written.
FilteredIndirects(deps, direct) ==
    LET kept == SelectSeq(deps, LAMBDA d : ~HasPackage(direct, d.Package))
    IN  [j \in 1..Len(kept) |-> Normalize(kept[j])]

\* The direct listing after the entries whose package occurs in deps have
\* been rewritten in place.
RewrittenDirect(deps, direct) ==
    [j \in 1..Len(direct) |->
        IF HasPackage(deps, direct[j].Package)
        THEN ValueFor(deps, direct[j].Package)
        ELSE direct[j]]

\* C13: after SetIndirect(deps), deps naming no package twice, GetIndirect
\* returns the entries of deps without a direct entry, in the order given,
\* and nothing of the block before; the direct entries whose package is in
\* deps carry the value from deps, in place.
C13_SetIndirectReplacesTheBlock ==
    (/\ last.op = "SetIndirect"
     /\ NoPackageTwice(last.deps)
     /\ ~empty(findRegions(last.before.Lines).pinDepends)) =>
        /\ ~f.panicked
        /\ GetIndirect(f) = FilteredIndirects(last.deps, WrittenDirect(last.before.Lines))
        /\ GetPinDepends(f) = RewrittenDirect(last.deps, WrittenDirect(last.before.Lines))

----------------------------------------------------------------------------
(* The dependency graph: inputs and state machine.                         *)

Worker == Node("rocqworker", "")

\* The lines the dependency-rule texts are made of, in their order.
RuleText ==
    << CommentLine(<<Node("D", "vo")>>, <<Node("A", "v")>>),
       RuleLine(<<Node("A", "vo")>>, <<Node("A", "v"), Node("B", "vo")>>),
       RuleLine(<<Node("B", "vo")>>, <<Node("B", "v")>>),
       RuleLine(<<Node("A", "vo"), Node("A", "glob")>>,
                <<Node("A", "v"), Node("C", "vo"), Node("B", "vo"), Worker>>),
       RuleLine(<<Node("B", "vo")>>, <<Node("B", "v"), Node("D", "vo")>>),
       BlankLine,
       RuleLine(<<Node("C", "vo")>>, <<Node("C", "v"), Node("D", "vo")>>),
       RuleLine(<<Node("D", "vo")>>, <<Node("D", "v"), Worker>>),
       RuleLine(<<Node("D", "vo")>>, <<Node("A", "vo")>>),
       RuleLine(<<Node("C", "vo")>>, <<Node("C", "vo"), Node("C", "v")>>),
       OtherLine(<<Node("A", "vo"), Node("B", "v")>>) >>

\* The lines of RuleText numbered in S, in their order.
Picked(S) ==
    LET nums == SelectSeq([i \in 1..Len(RuleText) |-> i], LAMBDA i : i \in S)
    IN  [j \in 1..Len(nums) |-> RuleText[nums[j]]]

\* The predicates handed to FilterNodes.
Keeps == {RocqKinds, {"vo", "glob"}}

RocqDepsArgs ==
    { <<Node("A", "vo")>>, <<Node("A", "v"), Node("B", "vo")>>, <<Node("C", "vo")>>,
      <<Node("D", "vo"), Node("A", "vo")>> }

RocqTargetsArgs ==
    { <<Node("B", "v")>>, <<Node("D", "vo")>>, <<Node("C", "v"), Node("A", "v")>> }

\* No manifest is at hand.
OpamIdle ==
    /\ text = <<>>
    /\ pc = "idle"
    /\ f = NoFile
    /\ err = NoErr
    /\ last = NoLast
    /\ nops = 0
    /\ env = NoEnv
    /\ run = NoRun

InitGraph ==
    /\ OpamIdle
    /\ \E S \in SUBSET (1..Len(RuleText)) :
          /\ Cardinality(S) <= MaxRuleLines
          /\ rules = Picked(S)
    /\ gpc = "rules"
    /\ graph = EmptyGraph
    /\ filt = NoFilt
    /\ walk = NoWalk
    /\ result = NoResult

\* depgraph.Parse(r)
DoParseRules ==
    /\ gpc = "rules"
    /\ \E r \in {ParseRules(rules)} :
          /\ graph' = r.graph
          /\ gpc' = IF r.err THEN "error" ELSE "parsed"
    /\ UNCHANGED <<rules, filt, walk, result>>
    /\ UNCHANGED opamVars

\* g.FilterNodes(pred)
DoFilterNodes ==
    /\ gpc = "parsed"
    /\ ~filt.applied
    /\ \E keep \in Keeps :
          /\ graph' = FilterNodes(graph, keep)
          /\ filt' = [before |-> graph, keep |-> keep, applied |-> TRUE]
    /\ UNCHANGED <<rules, gpc, walk, result>>
    /\ UNCHANGED opamVars

\* RocqDeps(deps, args) up to the call of deps.Deps
DoRocqDeps ==
    /\ gpc = "parsed"
    /\ \E args \in RocqDepsArgs :
          /\ walk' = StartWalk("Deps", RocqDepsSeeds(args))
          /\ result' = [op |-> "RocqDeps", args |-> args, value |-> <<>>]
    /\ gpc' = "walk"
    /\ UNCHANGED <<rules, graph, filt>>
    /\ UNCHANGED opamVars

\* RocqTargets(deps, args) up to the call of deps.Targets
DoRocqTargets ==
    /\ gpc = "parsed"
    /\ \E args \in RocqTargetsArgs :
          /\ walk' = StartWalk("Targets", RocqTargetsSeeds(args))
          /\ result' = [op |-> "RocqTargets", args |-> args, value |-> <<>>]
    /\ gpc' = "walk"
    /\ UNCHANGED <<rules, graph, filt>>
    /\ UNCHANGED opamVars

\* What the caller makes of the nodes the traversal returned.
Returned(op, out) ==
    IF op = "RocqDeps" THEN RocqDepsResult(out) ELSE RocqTargetsResult(out)

\* One step of the traversal; at its end the caller returns its result.
DoWalkStep ==
    /\ gpc = "walk"
    /\ Len(walk.stack) < MaxDepth
    /\ \E w \in {WalkStep(graph, walk)} :
          /\ walk' = w
          /\ gpc' = IF w.done THEN "done" ELSE "walk"
          /\ result' = IF w.done
                       THEN [result EXCEPT !.value = Returned(result.op, w.out)]
                       ELSE result
    /\ UNCHANGED <<rules, graph, filt>>
    /\ UNCHANGED opamVars

NextGraph == DoParseRules \/ DoFilterNodes \/ DoRocqDeps \/ DoRocqTargets \/ DoWalkStep

SpecGraph == InitGraph /\ [][NextGraph]_vars

\* The traversal is never abandoned halfway.
SpecGraphFair == SpecGraph /\ WF_vars(DoWalkStep)

----------------------------------------------------------------------------
(* Properties of the dependency graph (specifications SpecGraph and        *)
(* SpecGraphFair).                                                         *)

NoDuplicates(s) == \A j, k \in 1..Len(s) : s[j] = s[k] => j = k

Count(x, s) == Cardinality({j \in 1..Len(s) : s[j] = x})

\* The nodes one edge away from a node of X: the sources the nodes of X
\* depend on (dir = "Deps") or the targets that depend on them.
OneEdgeFrom(gr, dir, X) ==
    IF dir = "Deps"
    THEN {gr.deps[j].Source : j \in {i \in 1..Len(gr.deps) : gr.deps[i].Target \in X}}
    ELSE {gr.deps[j].Target : j \in {i \in 1..Len(gr.deps) : gr.deps[i].Source \in X}}

RECURSIVE Saturate(_, _, _)
Saturate(gr, dir, X) ==
    IF OneEdgeFrom(gr, dir, X) \subseteq X
    THEN X
    ELSE Saturate(gr, dir, X \cup OneEdgeFrom(gr, dir, X))

\* The nodes reachable from a node of seeds by one edge or more.
Reachable(gr, dir, seeds) == Saturate(gr, dir, OneEdgeFrom(gr, dir, seeds))

DiamondRules == Picked({4, 5, 7, 8})

DepsReturned == gpc = "done" /\ result.op = "RocqDeps"

TargetsReturned == gpc = "done" /\ result.op = "RocqTargets"

\* C14: the forward closure lists every node reachable from a seed exactly
\* once, and so does the list RocqDeps makes of it; in the diamond the
\* closure of A holds D once.
C14_ReachableListedOnce ==
    DepsReturned =>
        /\ \A n \in Reachable(graph, "Deps", Range(RocqDepsSeeds(result.args))) :
              Count(n, walk.out) = 1
        /\ \A n \in Range(walk.out) : n[2] = "v" => Count(n, result.value) = 1
        /\ NoDuplicates(result.value)

C14_Witness ==
    /\ DepsReturned
    /\ rules = DiamondRules
    /\ result.args = <<Node("A", "vo")>>
    /\ Count(Node("D", "vo"), walk.out) = 1
    /\ Count(Node("D", "v"), result.value) = 1

\* C15: a traversal that was started ends, for Graph.Deps and Graph.Targets
\* alike, whatever the graph and the seeds: self-edges and cycles included.
C15_TraversalEnds == (gpc = "walk") ~> (gpc = "done")

\* A traversal that ended after it expanded a node lying on a cycle.
C15_Witness ==
    /\ gpc = "done"
    /\ \E n \in walk.visited : n \in Reachable(graph, walk.dir, {n})

\* The first m elements of s.
Prefix(s, m) == SubSeq(s, 1, m)

\* The graph went through filterRocq.
RocqFiltered == filt.applied /\ filt.keep = RocqKinds

\* The rules "A.vo: A.v B.vo" and "B.vo: B.v".
TwoRules == Picked({2, 3})

\* C16: the forward closure holds exactly the nodes reachable from a seed;
\* its order is that of discovery, not a sorted one: every node comes after
\* a seed or a node listed earlier that has an edge to it, and what the
\* first seeds reach comes before what only later seeds reach.  For the
\* rules A: A.v B and B: B.v the sources for seed A are A.v, B.v.
C16_ClosureInDiscoveryOrder ==
    DepsReturned =>
        LET seeds == RocqDepsSeeds(result.args)
        IN  /\ Range(walk.out) = Reachable(graph, "Deps", Range(seeds))
            /\ \A j \in 1..Len(walk.out) :
                  walk.out[j] \in OneEdgeFrom(graph, "Deps",
                                       Range(seeds) \cup Range(Prefix(walk.out, j - 1)))
            /\ \A k \in 0..Len(seeds) :
                  \E m \in 0..Len(walk.out) :
                      Range(Prefix(walk.out, m)) =
                          Reachable(graph, "Deps", Range(Prefix(seeds, k)))
            /\ (rules = TwoRules /\ RocqFiltered /\ result.args = <<Node("A", "vo")>>) =>
                  result.value = <<Node("A", "v"), Node("B", "v")>>

\* The closure of a seed that reaches C.vo before B.vo: not a sorted list.
C16_Witness ==
    /\ DepsReturned
    /\ rules = DiamondRules
    /\ RocqFiltered
    /\ walk.out = << Node("A", "v"), Node("C", "vo"), Node("C", "v"), Node("D", "vo"),
                     Node("D", "v"), Node("B", "vo"), Node("B", "v") >>

\* The graph with every edge turned round.
Reversed(gr) ==
    [deps |-> [j \in 1..Len(gr.deps) |-> Dep(gr.deps[j].Source, gr.deps[j].Target)]]

\* C17: the reverse closure holds the nodes that depend on a seed, directly
\* or through others, each once, in the order of their discovery: it is the
\* forward closure of the same seeds on the graph with its edges turned
\* round.  For the rules A: A.v B and B: B.v the reverse closure of B.v is
\* B, A.
C17_ReverseClosureMirrorsForward ==
    TargetsReturned =>
        LET seeds == RocqTargetsSeeds(result.args)
        IN  /\ NoDuplicates(walk.out)
            /\ Range(walk.out) = Reachable(graph, "Targets", Range(seeds))
            /\ walk.out = Deps(Reversed(graph), seeds)
            /\ (rules = TwoRules /\ RocqFiltered /\ result.args = <<Node("B", "v")>>) =>
                  walk.out = <<Node("B", "vo"), Node("A", "vo")>>

C17_Witness ==
    /\ TargetsReturned
    /\ rules = TwoRules
    /\ RocqFiltered
    /\ result.args = <<Node("B", "v")>>
    /\ walk.out = <<Node("B", "vo"), Node("A", "vo")>>
    /\ result.value = <<Node("B", "v"), Node("A", "v")>>

\* The (target, source) pairs the rule lines of a text spell out.
PairsOf(lines) ==
    UNION { {Dep(t, s) : t \in Range(line.left), s \in Range(line.right)} :
            line \in {l \in Range(lines) : l.colon /\ ~l.hash} }

\* C18: the graph Parse returns holds, for every line that is neither blank
\* nor a comment, the pairs of a target left of the ':' and a source right
\* of it, no pair twice, and nothing else; no line makes Parse fail.
C18_ParsePairsTargetsWithSources ==
    /\ gpc # "error"
    /\ (gpc = "parsed" /\ ~filt.applied) =>
          /\ Range(allDeps(graph)) = PairsOf(rules)
          /\ NoDuplicates(allDeps(graph))

\* A parsed text with a comment, a line without ':' and a pair written on
\* two lines.
C18_Witness ==
    /\ gpc = "parsed"
    /\ ~filt.applied
    /\ rules = Picked({1, 2, 4, 11})
    /\ Count(Dep(Node("A", "vo"), Node("A", "v")), allDeps(graph)) = 1
    /\ Len(allDeps(graph)) = 8

\* C19: after FilterNodes(pred) the graph holds the dependencies it held
\* before whose target and source both satisfy pred, and no other.
C19_FilterKeepsSatisfyingPairs ==
    filt.applied =>
        Range(allDeps(graph)) =
            {d \in Range(allDeps(filt.before)) :
                Satisfies(filt.keep, d.Target) /\ Satisfies(filt.keep, d.Source)}

\* A filtered graph that lost a dependency for its target, another for its
\* source, and kept a third.
C19_Witness ==
    /\ filt.applied
    /\ filt.keep = RocqKinds
    /\ Dep(Node("A", "glob"), Node("A", "v")) \in Range(allDeps(filt.before))
    /\ Dep(Node("A", "vo"), Worker) \in Range(allDeps(filt.before))
    /\ Dep(Node("A", "vo"), Node("A", "v")) \in Range(allDeps(graph))
    /\ Len(allDeps(graph)) < Len(allDeps(filt.before))

----------------------------------------------------------------------------
(* Commit normalization (specification Spec).                              *)

\* The leading characters of a commit, up to the abbreviation length.
Leading(commit) ==
    <<commit[1], IF commit[2] < HASH_ABBREV_LENGTH THEN commit[2] ELSE HASH_ABBREV_LENGTH>>

\* The entries handed to the last Store operation.
Handed ==
    IF last.op = "AddPinDepend" THEN {last.dep}
    ELSE IF last.op = "SetIndirect" THEN Range(last.deps)
    ELSE {}

\* The entry lines the last Store operation wrote.
NewEntryLines ==
    IF last.op \in {"AddPinDepend", "SetIndirect"}
    THEN {line \in Range(f.Lines) \ Range(last.before.Lines) : line.k = "pin"}
    ELSE {}

----------------------------------------------------------------------------
(* Regions, blocks and panics (specifications Spec and SpecParse).         *)

\* Are the stored regions of g those a scan of its lines computes?
RegionsAsScanned(g) ==
    LET r == findRegions(g.Lines)
    IN  /\ r.err = NoErr
        /\ g.depends = r.depends
        /\ g.pinDepends = r.pinDepends
        /\ g.indirectPinDepends = r.indirectPinDepends

\* C22: when Parse has returned a Document, and after every Store operation
\* that returned, the stored regions depends, pinDepends and
\* indirectPinDepends are those a fresh scan of the current lines computes.
C22_RegionsConsistent == pc = "parsed" => RegionsAsScanned(f)

\* Does no line of lines name the dependency, or hold an entry of the
\* package?
NewDependency(lines, name) ==
    \A i \in 1..Len(lines) : ~(dependLineRe(lines[i]) /\ lines[i].name = name)

NewPackage(lines, p) ==
    \A i \in 1..Len(lines) :
        ~(pinDependLineRe(lines[i]) /\ parsePinDependLine(lines[i]).Package = p)

\* C23: a brand-new entry goes directly under the open line of its block and
\* comes first in the listing, before the entries listed until then in
\* their order; so entries inserted one after another are listed in the
\* reverse of their arrival.
C23_NewEntriesComeFirst ==
    /\ (/\ last.op = "AddDependency"
        /\ NewDependency(last.before.Lines, last.name)) =>
          /\ ~f.panicked
          /\ GetDependencies(f) = <<last.name>> \o GetDependencies(last.before)
          /\ LineAt(f.Lines, findRegions(f.Lines).depends.startLine + 1) = DepLine(last.name)
    /\ (/\ last.op = "AddPinDepend"
        /\ NewPackage(last.before.Lines, last.dep.Package)) =>
          /\ ~f.panicked
          /\ GetPinDepends(f) = <<Normalize(last.dep)>> \o GetPinDepends(last.before)
          /\ LineAt(f.Lines, OpenLine(f.Lines) + 1) = DepString(last.dep)

\* Does some line of the text t open an indirect sub-block?
HasBeginMarker(t) == \E i \in 1..Len(t) : beginIndirectRe(t[i].line)

\* C24: SetIndirect with an empty list, on a manifest whose pin-depends
\* block holds no indirect sub-block, introduces none: no line of the
\* serialized document is an indirect begin marker.
C24_EmptyListAddsNoBlock ==
    (/\ last.op = "SetIndirect"
     /\ last.deps = <<>>
     /\ ~HasBeginMarker(String(last.before))) =>
        ~HasBeginMarker(String(f))

\* Does region r of g span from a line that open matches to a line that
\* closes a block?
SpansBlock(g, r, open(_)) ==
    /\ ~empty(r)
    /\ open(LineAt(g.Lines, r.startLine))
    /\ closeBracketRe(LineAt(g.Lines, r.endLine - 1))

\* C25: Parse of a text without a depends block, without a pin-depends
\* block or without both returns a Document in which both exist: the
\* regions depends and pinDepends are non-empty, and each spans from a line
\* opening its block to the line closing it.
C25_MissingBlocksAdded ==
    (/\ pc = "parsed"
     /\ nops = 0
     /\ ~DeclaresDepends(text) \/ ~DeclaresPinDepends(text)) =>
        /\ SpansBlock(f, f.depends, dependsRe)
        /\ SpansBlock(f, f.pinDepends, pinDependsRe)

\* Does some line of the text t open and close a block at once?
OneLineBlock(t) ==
    \E i \in 1..Len(t) : t[i].line \in {Lit("depends: []"), Lit("pin-depends: []")}

\* C26: Parse returns an error for every manifest in which the depends or
\* the pin-depends block is opened and closed on one line, whatever lines
\* follow.
C26_OneLineBlockRejected ==
    (pc # "text" /\ OneLineBlock(text)) => pc = "error"

\* C27: for a Document that Parse returned and every sequence of
\* AddPinDepend, SetIndirect and AddDependency calls, the scan that ends
\* each edit succeeds: the panic of update() is never reached.
C27_RescanNeverPanics == pc # "panic" /\ ~f.panicked

----------------------------------------------------------------------------
(* The result of a run and a second run (specification SpecResolve).       *)

\* C28: a call of UpdateIndirectDependencies that returns without an error
\* returns true exactly when it changed the manifest, by rewriting the
\* indirect entries or by extending the commit hash of a direct entry; on a
\* manifest that is up to date it returns false.
C28_ChangedTellsOfAChange ==
    \A k \in 1..Len(run) :
        run[k].err = "" =>
            (run[k].changed <=> String(run[k].after) # String(run[k].before))

----------------------------------------------------------------------------
(* One entry per package (specification Spec).                             *)

\* The entries that the lines hold, whatever the block.
EntriesOf(lines) ==
    ParsedAt(lines, SelectSeq(rangeIter(0, Len(lines)),
                              LAMBDA i : pinDependLineRe(LineAt(lines, i))))

\* Were all the calls so far AddPinDepend calls, or SetIndirect calls with a
\* list that names no package twice?
OnlyPinCalls ==
    \A k \in 1..Len(last.hist) :
        \/ last.hist[k].op = "AddPinDepend"
        \/ last.hist[k].op = "SetIndirect" /\ NoPackageTwice(last.hist[k].deps)

\* C29: from a parsed Document that holds every package at most once inside
\* its pin-depends block, and after any sequence of AddPinDepend calls and
\* of SetIndirect calls with lists that name no package twice, GetPinDepends
\* and GetIndirect together return at most one entry for every package.
C29_OneEntryPerPackage ==
    (/\ pc = "parsed"
     /\ NoPackageTwice(EntriesOf(ScanLines(text)))
     /\ OnlyPinCalls) =>
        NoPackageTwice(GetPinDepends(f) \o GetIndirect(f))

----------------------------------------------------------------------------
(* A second run (specification SpecResolve).                               *)

\* Is run k + 1 a call on the Document that run k produced, both returning
\* without an error?
RunAgain(k) ==
    /\ k + 1 <= Len(run)
    /\ run[k].err = ""
    /\ run[k + 1].err = ""
    /\ run[k + 1].before = run[k].after

\* C30: a run of UpdateIndirectDependencies on the Document that a first
\* successful run produced, against the same remote, leaves the serialized
\* manifest as the first run left it.
C30_SecondRunChangesNothing ==
    \A k \in 1..Len(run) :
        RunAgain(k) => String(run[k + 1].after) = String(run[k].after)

====
